---- MODULE Spec2Model ----
(***************************************************************************)
(* Model of Calamares::Python::Job (src/libcalamares/python/PythonJob.cpp).*)
(*                                                                         *)
(* A QString is a finite sequence of characters; a character is a TLA+     *)
(* string.  Translated messages are sequences whose elements are the       *)
(* literal fragments of the tr() text and the %1 / %2 place markers, so    *)
(* that QString::arg() is the substitution the code performs.              *)
(***************************************************************************)
EXTENDS Integers, Sequences, FiniteSets, TLC

VARIABLES
    s_preScript,   \* the process-wide pre-script slot (line 28)
    m_d,           \* per job: Job::Private (lines 172-186)
    pc,            \* position of the running exec() call
    cur,           \* the job whose exec() is running or ran last (0: none yet)
    fs,            \* what the validation of this call observed on disk
    interpreters,  \* number of live interpreters (scoped_interpreter guards)
    scope,         \* __main__.__dict__ of the live interpreter
    preRan,        \* the pre-script text this call executed (NULL: none)
    runRet,        \* what the call of run() did in this call
    events,        \* what this call did, in order
    signals,       \* values sent on the job's progress signal in this call
    result,        \* the JobResult this call returned
    thrown,        \* the exception this call let propagate
    lastSet,       \* the argument of the last setInjectedPreScript call
    store,         \* the global storage behind the shared handle (line 248)
    lastCall       \* the last call on the global storage and what it returned

vars == << s_preScript, m_d, pc, cur, fs, interpreters, scope, preRan,
           runRet, events, signals, result, thrown, lastSet, store,
           lastCall >>

-----------------------------------------------------------------------------
(* Bounds of the model *)

MaxSeqLen == 3
MaxProgress == 1

-----------------------------------------------------------------------------
(* Sequences and text *)

Range(s) == { s[i] : i \in 1..Len(s) }

BoundedSeq(S, n) == UNION { [1..k -> S] : k \in 0..n }

NUL == "NUL"

\* Texts bound to __doc__: empty, blank, one line, one line with blanks and
\* a newline around it, two lines, several lines with blanks.
DocTexts ==
    { << >>,
      << " ", "\n" >>,
      << "a" >>,
      << "\n", " ", "a", "\n" >>,
      << "a", "\n", "a" >>,
      << " ", "a", " ", "\n", "\n", "a", "\n" >> }

\* Texts a pretty_name() call may return; one holds an embedded NUL.
NameTexts == { << >>, << "b" >>, << "b", NUL, "c" >> }

\* Texts the elements of a run() result are drawn from.
ElemTexts == { << "s" >>, << "d" >> }

IsSpace(c) == c \in { " ", "\n" }

\* QString::fromUtf8( s.c_str() ): the C string ends at the first NUL.
FromUtf8CStr(s) ==
    IF \E i \in 1..Len(s) : s[i] = NUL
    THEN SubSeq(s, 1, (CHOOSE i \in 1..Len(s) :
                          /\ s[i] = NUL
                          /\ \A k \in 1..(i - 1) : s[k] # NUL) - 1)
    ELSE s

\* QString::trimmed(): whitespace removed from both ends.
Trimmed(s) ==
    LET keep == { i \in 1..Len(s) : ~IsSpace(s[i]) }
    IN  IF keep = {} THEN << >>
        ELSE SubSeq(s, CHOOSE i \in keep : \A k \in keep : i <= k,
                       CHOOSE i \in keep : \A k \in keep : k <= i)

\* QString::indexOf( c ): 0-based position of the first c, or -1.
IndexOf(s, c) ==
    IF \E i \in 1..Len(s) : s[i] = c
    THEN (CHOOSE i \in 1..Len(s) :
             /\ s[i] = c
             /\ \A k \in 1..(i - 1) : s[k] # c) - 1
    ELSE -1

\* QString::truncate( n ): the first n characters.
Truncate(s, n) == SubSeq(s, 1, n)

RECURSIVE Subst(_, _, _)
Subst(fmt, marker, a) ==
    IF fmt = << >> THEN << >>
    ELSE (IF Head(fmt) = marker THEN a ELSE << Head(fmt) >>)
         \o Subst(Tail(fmt), marker, a)

\* QString::arg( a ): every occurrence of the lowest-numbered place marker
\* is replaced by a.
Arg(fmt, a) ==
    IF "%1" \in Range(fmt) THEN Subst(fmt, "%1", a)
    ELSE IF "%2" \in Range(fmt) THEN Subst(fmt, "%2", a)
    ELSE fmt

\* tr(): no translation is loaded, the source text is used.
Tr(fmt) == fmt

\* s occurs in t as a contiguous run of characters.
Contains(t, s) ==
    \E i \in 1..(Len(t) - Len(s) + 1) : SubSeq(t, i, i + Len(s) - 1) = s

-----------------------------------------------------------------------------
(* Guest values *)

PyStr(t) == [ kind |-> "str", text |-> t ]
PyInt == [ kind |-> "int", text |-> << >> ]

\* Elements a sequence returned by run() may hold.
Elems == { PyStr(t) : t \in ElemTexts } \cup { PyInt }

\* What a call of run() can do: raise, or return None, a value that is not
\* iterable, or a sequence (tuple or list) of elements.
RetRaise == [ kind |-> "raise", items |-> << >> ]
RetNone == [ kind |-> "none", items |-> << >> ]
RetInt == [ kind |-> "int", items |-> << >> ]
RetSeq(items) == [ kind |-> "seq", items |-> items ]
NotCalled == [ kind |-> "notcalled", items |-> << >> ]

RunOutcomes ==
    { RetRaise, RetNone, RetInt }
    \cup { RetSeq(items) : items \in BoundedSeq(Elems, MaxSeqLen) }

\* Bindings of pretty_name: none, a value that is not callable, a callable
\* that raises, a callable that returns a value.
PnAbsent == [ kind |-> "absent", ret |-> PyInt ]
PnValue == [ kind |-> "value", ret |-> PyInt ]
PnRaises == [ kind |-> "raises", ret |-> PyInt ]
PnReturns(v) == [ kind |-> "returns", ret |-> v ]
PnBindings ==
    { PnAbsent, PnValue, PnRaises, PnReturns(PyInt) }
    \cup { PnReturns(PyStr(t)) : t \in NameTexts }

\* Bindings of __doc__: none, a value that is no text (None, a number),
\* a text.
DocAbsent == [ kind |-> "absent", text |-> << >> ]
DocNone == [ kind |-> "nontext", text |-> << >> ]
DocStr(t) == [ kind |-> "str", text |-> t ]
DocBindings == { DocAbsent, DocNone } \cup { DocStr(t) : t \in DocTexts }

\* Bindings of run: none, a value that is not callable, a callable.
RunBindings == { "absent", "value", "callable" }

\* A namespace that already has run bound when the interpreter starts.
FreshScope_RunCarriedOver ==
    [ pretty_name |-> PnAbsent, doc |-> DocNone, run |-> "callable" ]

\* __main__.__dict__ of a new interpreter: __doc__ is None, nothing else
\* of interest is bound.
FreshScope == [ pretty_name |-> PnAbsent, doc |-> DocNone, run |-> "absent" ]

\* No interpreter, no namespace.
NoScope == [ pretty_name |-> PnAbsent, doc |-> DocAbsent, run |-> "gone" ]

\* What a piece of guest code does to the namespace: per name, leave it
\* ("keep") or bind it.
Keep == "keep"
KeepPn == [ kind |-> Keep, ret |-> PyInt ]
KeepDoc == [ kind |-> Keep, text |-> << >> ]
ApplyDelta(sc, d) ==
    [ pretty_name |-> IF d.pretty_name.kind = Keep THEN sc.pretty_name
                      ELSE d.pretty_name,
      doc |-> IF d.doc.kind = Keep THEN sc.doc ELSE d.doc,
      run |-> IF d.run = Keep THEN sc.run ELSE d.run ]

ScriptDeltas ==
    [ pretty_name : PnBindings \cup { KeepPn },
      doc : DocBindings \cup { KeepDoc },
      run : RunBindings \cup { Keep } ]

-----------------------------------------------------------------------------
(* Jobs *)

Jobs == { 1, 2 }

\* The arguments the two jobs are constructed with.  Job 1 names its script
\* relative to the working directory, job 2 by an absolute path.
CtorScriptFile(j) ==
    IF j = 1 THEN << "main.py" >> ELSE << "/", "opt", "/", "run.py" >>
CtorWorkingPath(j) ==
    IF j = 1 THEN << "/", "modules", "/", "dummy" >>
    ELSE << "/", "unpackfs", "/" >>
CtorConfiguration(j) ==
    IF j = 1 THEN { << "verbose", "yes" >> } ELSE { }

\* Job::Job: the descriptor is stored, the description starts empty.
NewPrivate(j) ==
    [ scriptFile |-> CtorScriptFile(j),
      workingPath |-> CtorWorkingPath(j),
      configurationMap |-> CtorConfiguration(j),
      description |-> << >> ]

\* QDir( path ).dirName(): the last component of the path; a trailing
\* separator is dropped first, the root directory has no name.
DirName(path) ==
    LET p == IF Len(path) > 1 /\ path[Len(path)] = "/"
             THEN SubSeq(path, 1, Len(path) - 1) ELSE path
        seps == { i \in 1..Len(p) : p[i] = "/" }
    IN  IF seps = {} THEN p
        ELSE SubSeq(p, (CHOOSE i \in seps : \A k \in seps : k <= i) + 1, Len(p))

\* Job::prettyName
prettyName(j) == DirName(m_d[j].workingPath)

\* Lines 205-217 without the fallback text.
prettyStatusMessage_NoFallback(j) == m_d[j].description

\* Job::prettyStatusMessage, lines 205-217
prettyStatusMessage(j) ==
    IF m_d[j].description = << >>
    THEN Arg(Tr(<< "Running ", "%1", " operation." >>), prettyName(j))
    ELSE m_d[j].description

\* QDir::absoluteFilePath: an absolute file name is kept, a relative one
\* is appended to the directory's path.
AbsoluteFilePath(dir, file) ==
    IF file # << >> /\ file[1] = "/" THEN file
    ELSE IF dir # << >> /\ dir[Len(dir)] = "/" THEN dir \o file
    ELSE dir \o << "/" >> \o file

scriptPath(j) == AbsoluteFilePath(m_d[j].workingPath, m_d[j].scriptFile)

-----------------------------------------------------------------------------
(* Job results *)

NoError == "NoError"
GenericError == "GenericError"
PythonUncaughtException == "PythonUncaughtException"

JobResult_ok ==
    [ kind |-> "Success", summary |-> << >>, details |-> << >>,
      code |-> NoError ]
JobResult_error(message, details) ==
    [ kind |-> "Error", summary |-> message, details |-> details,
      code |-> GenericError ]
JobResult_internalError(message, details, number) ==
    [ kind |-> "InternalError", summary |-> message, details |-> details,
      code |-> number ]

\* No result: exec() has not returned.
NoResult ==
    [ kind |-> "none", summary |-> << >>, details |-> << >>, code |-> NoError ]

MsgBadWorkingDir == << "Bad working directory path" >>
MsgBadMainScript == << "Bad main script file" >>
MsgBadInternalScript == << "Bad internal script" >>

\* Lines 226-229
BadWorkingDirResult(j) ==
    JobResult_error(
        Tr(MsgBadWorkingDir),
        Arg(Arg(Tr(<< "Working directory ", "%1", " for python job ", "%2",
                      " is not readable." >>),
                m_d[j].workingPath),
            prettyName(j)))

\* Lines 235-238
BadScriptFileResult(j) ==
    JobResult_error(
        Tr(MsgBadMainScript),
        Arg(Arg(Tr(<< "Main script file ", "%1", " for python job ", "%2",
                      " is not readable." >>),
                scriptPath(j)),
            prettyName(j)))

\* Lines 265-268
PreScriptRaisedResult(j) ==
    JobResult_internalError(
        Tr(MsgBadInternalScript),
        Arg(Tr(<< "Internal script for python job ", "%1",
                  " raised an exception." >>),
            prettyName(j)),
        PythonUncaughtException)

\* Lines 279-284 reporting the raise as a plain error.
LoadRaisedResult_AsError(j) ==
    JobResult_error(
        Tr(MsgBadMainScript),
        Arg(Arg(Tr(<< "Main script file ", "%1", " for python job ", "%2",
                      " could not be loaded because it raised an  exception." >>),
                scriptPath(j)),
            prettyName(j)))

\* Lines 279-284
LoadRaisedResult(j) ==
    JobResult_internalError(
        Tr(MsgBadMainScript),
        Arg(Arg(Tr(<< "Main script file ", "%1", " for python job ", "%2",
                      " could not be loaded because it raised an  exception." >>),
                scriptPath(j)),
            prettyName(j)),
        PythonUncaughtException)

\* Lines 306-310 reporting the raise as a plain error.
RunRaisedResult_AsError(j) ==
    JobResult_error(
        Tr(MsgBadMainScript),
        Arg(Arg(Tr(<< "Main script file ", "%1", " for python job ", "%2",
                      " raised an exception." >>),
                scriptPath(j)),
            prettyName(j)))

\* Lines 306-310
RunRaisedResult(j) ==
    JobResult_internalError(
        Tr(MsgBadMainScript),
        Arg(Arg(Tr(<< "Main script file ", "%1", " for python job ", "%2",
                      " raised an exception." >>),
                scriptPath(j)),
            prettyName(j)),
        PythonUncaughtException)

\* Lines 323-326 and 331-334
InvalidResultsResult(j) ==
    JobResult_error(
        Tr(MsgBadMainScript),
        Arg(Arg(Tr(<< "Main script file ", "%1", " for python job ", "%2",
                      " returned invalid results." >>),
                scriptPath(j)),
            prettyName(j)))

\* Lines 339-342
MissingRunResult(j) ==
    JobResult_error(
        Tr(MsgBadMainScript),
        Arg(Arg(Tr(<< "Main script file ", "%1", " for python job ", "%2",
                      " does not contain a run() function." >>),
                scriptPath(j)),
            prettyName(j)))

-----------------------------------------------------------------------------
(* getPrettyNameFromScope, lines 30-73 *)

None == "none"
ErrorAlreadySet == "error_already_set"
CastError == "cast_error"

\* func().cast< std::string >() and QString::fromUtf8( s.c_str() ), lines
\* 37-41: calling a value that is not callable, or a callable that raises,
\* throws error_already_set; a result that is no text throws cast_error.
CallPrettyName(b) ==
    IF b.kind \in { "value", "raises" }
    THEN [ thrown |-> ErrorAlreadySet, text |-> << >> ]
    ELSE IF b.ret.kind # "str"
    THEN [ thrown |-> CastError, text |-> << >> ]
    ELSE [ thrown |-> None, text |-> FromUtf8CStr(b.ret.text) ]

\* Lines 52-68: the trimmed text up to its first newline; without a
\* newline, or when __doc__ is no text, there is no value and the caller
\* goes on to the next fallback.
DocFirstLine(d) ==
    IF d.kind # "str" THEN [ found |-> FALSE, text |-> << >> ]
    ELSE LET string == Trimmed(FromUtf8CStr(d.text))
             newline_index == IndexOf(string, "\n")
         IN  IF newline_index >= 0
             THEN [ found |-> TRUE, text |-> Truncate(string, newline_index) ]
             ELSE [ found |-> FALSE, text |-> << >> ]

\* The text returned, or the exception that leaves the function: only
\* cast_error is caught (lines 43 and 65).
getPrettyNameFromScope(sc) ==
    LET name == IF sc.pretty_name.kind # "absent"
                THEN CallPrettyName(sc.pretty_name)
                ELSE [ thrown |-> CastError, text |-> << >> ]
        doc == IF sc.doc.kind # "absent"
               THEN DocFirstLine(sc.doc)
               ELSE [ found |-> FALSE, text |-> << >> ]
    IN  IF sc.pretty_name.kind # "absent" /\ name.thrown = ErrorAlreadySet
        THEN [ thrown |-> ErrorAlreadySet, text |-> << >> ]
        ELSE IF sc.pretty_name.kind # "absent" /\ name.thrown = None
        THEN [ thrown |-> None, text |-> name.text ]
        ELSE IF doc.found
        THEN [ thrown |-> None, text |-> doc.text ]
        ELSE [ thrown |-> None, text |-> << >> ]

-----------------------------------------------------------------------------
(* Translation of the value run() returned, lines 313-335 *)

\* const py::tuple items = r: a sequence is converted, any other value
\* makes the conversion raise (line 317).
TupleFrom(r) ==
    [ thrown |-> IF r.kind = "seq" THEN None ELSE ErrorAlreadySet,
      items |-> r.items ]

\* items[ i ], 0-based: an index past the end raises (line 318).
GetItem(items, i) ==
    IF i < Len(items)
    THEN [ thrown |-> None, item |-> items[i + 1] ]
    ELSE [ thrown |-> ErrorAlreadySet, item |-> PyInt ]

\* asQString (python/Pybind11Helpers.h): a text element gives its text
\* unchanged, an element that is no text is refused.
asQString(o) ==
    IF o.kind = "str" THEN [ thrown |-> None, text |-> o.text ]
    ELSE [ thrown |-> CastError, text |-> << >> ]

\* Line 318 with the two arguments in the other order.
ErrorFromItems_Swapped(items) ==
    LET i0 == GetItem(items, 0)
        i1 == GetItem(items, 1)
        q0 == asQString(i0.item)
        q1 == asQString(i1.item)
    IN  [ thrown |-> IF i0.thrown # None THEN i0.thrown
                     ELSE IF q0.thrown # None THEN q0.thrown
                     ELSE IF i1.thrown # None THEN i1.thrown
                     ELSE q1.thrown,
          result |-> JobResult_error(q1.text, q0.text) ]

\* JobResult::error( asQString( items[ 0 ] ), asQString( items[ 1 ] ) ),
\* line 318, or the first exception raised while evaluating it.
ErrorFromItems(items) ==
    LET i0 == GetItem(items, 0)
        i1 == GetItem(items, 1)
        q0 == asQString(i0.item)
        q1 == asQString(i1.item)
    IN  [ thrown |-> IF i0.thrown # None THEN i0.thrown
                     ELSE IF q0.thrown # None THEN q0.thrown
                     ELSE IF i1.thrown # None THEN i1.thrown
                     ELSE q1.thrown,
          result |-> JobResult_error(q0.text, q1.text) ]

\* Lines 313-335 without the test for None of line 313.
TranslateReturn_NoNoneCheck(j, r) ==
    LET t == TupleFrom(r)
        e == ErrorFromItems(t.items)
    IN  IF t.thrown # None THEN InvalidResultsResult(j)
        ELSE IF e.thrown # None THEN InvalidResultsResult(j)
        ELSE e.result

\* Lines 313-335: None is success; otherwise the error pair, unless
\* building it raised cast_error (line 320) or error_already_set (line
\* 328), which both give the "invalid results" error.
TranslateReturn(j, r) ==
    IF r.kind = "none" THEN JobResult_ok
    ELSE LET t == TupleFrom(r)
             e == ErrorFromItems(t.items)
         IN  IF t.thrown # None THEN InvalidResultsResult(j)
             ELSE IF e.thrown # None THEN InvalidResultsResult(j)
             ELSE e.result

-----------------------------------------------------------------------------
(* The pre-script slot *)

NULL == "NULL"

\* Texts a host installs as pre-script: one raises, one binds run.
PreScripts == { "pre_raise", "pre_run" }

PreScriptRaises(p) == p = "pre_raise"

PreScriptDelta(p) ==
    [ pretty_name |-> KeepPn, doc |-> KeepDoc,
      run |-> IF p = "pre_run" THEN "callable" ELSE Keep ]

-----------------------------------------------------------------------------
(* Initial state *)

\* The global storage: string keys, values; Absent for a key not in it.
StoreKeys == { "rootMountPoint", "bootLoader" }

StoreValues == { "/tmp/root", "grub" }

Absent == "absent"

EmptyStore == [ k \in StoreKeys |-> Absent ]

NoKey == "nokey"

NoArg == "noarg"

\* What a call on the storage returns: None, a bool, an int, the list of
\* keys, or a stored value.
StoreNone == [ kind |-> "none", b |-> FALSE, n |-> 0, ks |-> { }, v |-> None ]

StoreBool(b) == [ StoreNone EXCEPT !.kind = "bool", !.b = b ]

StoreInt(n) == [ StoreNone EXCEPT !.kind = "int", !.n = n ]

StoreKeyList(ks) == [ StoreNone EXCEPT !.kind = "keys", !.ks = ks ]

StoreValue(v) == [ StoreNone EXCEPT !.kind = "value", !.v = v ]

NoCall == [ by |-> "nobody", name |-> "none", key |-> NoKey, arg |-> NoArg,
            ret |-> StoreNone ]

\* The operations of the shared store handle: what each returns and the
\* storage it leaves.
GlobalStorage(method, gs, key, value) ==
    CASE method = "contains" -> [ ret |-> StoreBool(gs[key] # Absent), gs |-> gs ]
      [] method = "count" ->
            [ ret |-> StoreInt(Cardinality({ k \in StoreKeys :
                                                gs[k] # Absent })),
              gs |-> gs ]
      [] method = "insert" ->
            [ ret |-> StoreNone, gs |-> [ gs EXCEPT ![key] = value ] ]
      [] method = "keys" ->
            [ ret |-> StoreKeyList({ k \in StoreKeys : gs[k] # Absent }),
              gs |-> gs ]
      [] method = "remove" ->
            [ ret |-> StoreInt(IF gs[key] # Absent THEN 1 ELSE 0),
              gs |-> [ gs EXCEPT ![key] = Absent ] ]
      [] method = "value" ->
            [ ret |-> IF gs[key] # Absent THEN StoreValue(gs[key])
                      ELSE StoreNone,
              gs |-> gs ]

\* GlobalStorageProxy: each method forwards to the handle it was built on.
GlobalStorageProxy(method, gs, key, value) ==
    GlobalStorage(method, gs, key, value)

StoreMethods == { "contains", "count", "insert", "keys", "remove", "value" }

\* Lines 155-162 with "remove" bound to the contains method.
StoreBinding_RemoveIsContains(name) ==
    IF name = "remove" THEN "contains" ELSE name

\* Lines 155-162: the Python method names of the GlobalStorage class and
\* the proxy method each is bound to.
StoreBinding(name) ==
    CASE name = "contains" -> "contains"
      [] name = "count" -> "count"
      [] name = "insert" -> "insert"
      [] name = "keys" -> "keys"
      [] name = "remove" -> "remove"
      [] name = "value" -> "value"

\* The arguments a call of each method takes.
StoreCallArgs(name) ==
    CASE name \in { "count", "keys" } -> { << NoKey, NoArg >> }
      [] name = "insert" -> StoreKeys \X StoreValues
      [] OTHER -> StoreKeys \X { NoArg }

NoFs == [ dirExists |-> FALSE, dirReadable |-> FALSE, fileExists |-> FALSE,
          isFile |-> FALSE, fileReadable |-> FALSE ]

Init ==
    /\ s_preScript = NULL
    /\ m_d = [ j \in Jobs |-> NewPrivate(j) ]
    /\ pc = "idle"
    /\ cur = 0
    /\ fs = NoFs
    /\ interpreters = 0
    /\ scope = NoScope
    /\ preRan = NULL
    /\ runRet = NotCalled
    /\ events = << >>
    /\ signals = << >>
    /\ result = NoResult
    /\ thrown = None
    /\ lastSet = NULL
    /\ store = EmptyStore
    /\ lastCall = NoCall

-----------------------------------------------------------------------------
(* Job::exec, lines 219-344 *)

\* What the checks of lines 224 and 233 can find on disk: nothing is
\* readable, or a regular file, unless it exists.
DirStates ==
    { d \in [ dirExists : BOOLEAN, dirReadable : BOOLEAN ] :
        d.dirReadable => d.dirExists }
FileStates ==
    { f \in [ fileExists : BOOLEAN, isFile : BOOLEAN, fileReadable : BOOLEAN ] :
        (f.isFile \/ f.fileReadable) => f.fileExists }

\* Line 224
WorkingDirBad(f) == ~f.dirExists \/ ~f.dirReadable

\* Line 233 without the isFile() test.
ScriptFileBad_NoIsFile(f) == ~f.fileExists \/ ~f.fileReadable

\* Line 233
ScriptFileBad(f) == ~f.fileExists \/ ~f.isFile \/ ~f.fileReadable

\* An interpreter held by a plain handle: an exception leaves it alive.
GuardDtor_LeakOnThrow(exit) ==
    IF exit = "throw" THEN interpreters ELSE interpreters - 1

\* py::scoped_interpreter guard (line 241) is destroyed when exec() is
\* left, by a return ("return") or by an exception ("throw").
GuardDtor(exit) == interpreters - 1

LeaveScope(exit) ==
    /\ interpreters' = GuardDtor(exit)
    /\ scope' = NoScope
    /\ events' = Append(events, "release")

\* return <res> with the interpreter alive.
Return(res) ==
    /\ pc' = "done"
    /\ result' = res
    /\ thrown' = None
    /\ LeaveScope("return")

\* An exception leaving exec() together with a returned result.
Throw_WithResult(e) ==
    /\ pc' = "done"
    /\ result' = JobResult_internalError(<< >>, << >>, PythonUncaughtException)
    /\ thrown' = e
    /\ LeaveScope("throw")

\* An exception leaves exec() with the interpreter alive.
Throw(e) ==
    /\ pc' = "done"
    /\ result' = NoResult
    /\ thrown' = e
    /\ LeaveScope("throw")

\* The job queue calls exec() of one job at a time and lets it return
\* before it does anything else: no call is running.
NoCallRunning == pc \in { "idle", "done" }

\* Lines 219-230: exec() is called on job j; the working directory is
\* checked.
Exec_CheckWorkingDir(j) ==
    /\ NoCallRunning
    /\ cur' = j
    /\ preRan' = NULL
    /\ runRet' = NotCalled
    /\ events' = << >>
    /\ signals' = << >>
    /\ thrown' = None
    /\ \E d \in DirStates :
         /\ fs' = [ NoFs EXCEPT !.dirExists = d.dirExists,
                                !.dirReadable = d.dirReadable ]
         /\ IF WorkingDirBad(d)
            THEN /\ result' = BadWorkingDirResult(j)
                 /\ pc' = "done"
            ELSE /\ result' = NoResult
                 /\ pc' = "checkScript"
    /\ UNCHANGED << s_preScript, lastSet, store, lastCall, m_d, interpreters, scope >>

\* Lines 232-239
Exec_CheckScriptFile ==
    /\ pc = "checkScript"
    /\ \E f \in FileStates :
         /\ fs' = [ fs EXCEPT !.fileExists = f.fileExists,
                              !.isFile = f.isFile,
                              !.fileReadable = f.fileReadable ]
         /\ IF ScriptFileBad(f)
            THEN /\ result' = BadScriptFileResult(cur)
                 /\ pc' = "done"
            ELSE /\ result' = NoResult
                 /\ pc' = "acquire"
    /\ UNCHANGED << s_preScript, lastSet, store, lastCall, m_d, cur, interpreters, scope, preRan,
                    runRet, events, signals, thrown >>

\* Line 241: a new interpreter, with a new __main__ namespace.
Exec_AcquireInterpreter ==
    /\ pc = "acquire"
    /\ interpreters' = interpreters + 1
    /\ scope' = FreshScope
    /\ events' = Append(events, "acquire")
    /\ pc' = "install"
    /\ UNCHANGED << s_preScript, lastSet, store, lastCall, m_d, cur, fs, preRan, runRet,
                    signals, result, thrown >>

\* Lines 250-254 with the error logged and not thrown again.
InstallFailed_Swallowed(e) ==
    /\ pc' = "preScript"
    /\ UNCHANGED << interpreters, scope, events, result, thrown >>

\* Lines 250-254: the handler logs the error and throws it again.
InstallFailed(e) == Throw(e)

\* Lines 243-254: import libcalamares, bind job and globalstorage; an
\* error_already_set is logged and thrown again.
Exec_InstallApi ==
    /\ pc = "install"
    /\ \E ok \in BOOLEAN :
         IF ok
         THEN /\ events' = Append(events, "install")
              /\ pc' = "preScript"
              /\ UNCHANGED << interpreters, scope, result, thrown >>
         ELSE InstallFailed(ErrorAlreadySet)
    /\ UNCHANGED << s_preScript, lastSet, store, lastCall, m_d, cur, fs, preRan, runRet,
                    signals >>

\* Line 256 with the pre-script run for the first job only.
PreScriptConfigured_FirstJobOnly == s_preScript # NULL /\ cur = 1

\* Line 256: if ( s_preScript )
PreScriptConfigured == s_preScript # NULL

\* Lines 256-270: py::exec( s_preScript ) when the slot is set.
Exec_PreScript ==
    /\ pc = "preScript"
    /\ IF ~PreScriptConfigured
       THEN /\ pc' = "load"
            /\ UNCHANGED << interpreters, scope, preRan, events, result, thrown >>
       ELSE /\ preRan' = s_preScript
            /\ IF PreScriptRaises(s_preScript)
               THEN /\ pc' = "done"
                    /\ result' = PreScriptRaisedResult(cur)
                    /\ thrown' = None
                    /\ interpreters' = GuardDtor("return")
                    /\ scope' = NoScope
                    /\ events' = events \o << "prescript", "release" >>
               ELSE /\ pc' = "load"
                    /\ scope' = ApplyDelta(scope, PreScriptDelta(s_preScript))
                    /\ events' = Append(events, "prescript")
                    /\ UNCHANGED << interpreters, result, thrown >>
    /\ UNCHANGED << s_preScript, lastSet, store, lastCall, m_d, cur, fs, runRet, signals >>

\* Line 274: py::eval_file starts executing the guest script.
Exec_EvalFileBegin ==
    /\ pc = "load"
    /\ pc' = "inLoad"
    /\ events' = Append(events, "load")
    /\ UNCHANGED << s_preScript, lastSet, store, lastCall, m_d, cur, fs, interpreters, scope,
                    preRan, runRet, signals, result, thrown >>

GuestUpdates(ev) == Cardinality({ i \in 1..Len(ev) : ev[i] = "setprogress" })

ProgressValues == { 0, 1 }

\* Job::emitProgress, lines 357-362, reached from guest code through
\* libcalamares.job.setprogress( v ).
Guest_SetProgress ==
    /\ pc \in { "inLoad", "inRun" }
    /\ GuestUpdates(events) < MaxProgress
    /\ \E v \in ProgressValues : signals' = Append(signals, v)
    /\ events' = Append(events, "setprogress")
    /\ UNCHANGED << s_preScript, lastSet, store, lastCall, m_d, pc, cur, fs, interpreters, scope,
                    preRan, runRet, result, thrown >>

\* Lines 272-285: the guest script has run its top-level statements, or
\* raised.
Exec_EvalFileEnd ==
    /\ pc = "inLoad"
    /\ \E raises \in BOOLEAN :
         IF raises
         THEN Return(LoadRaisedResult(cur))
         ELSE /\ \E d \in ScriptDeltas : scope' = ApplyDelta(scope, d)
              /\ events' = Append(events, "loaded")
              /\ pc' = "describe"
              /\ UNCHANGED << interpreters, result, thrown >>
    /\ UNCHANGED << s_preScript, lastSet, store, lastCall, m_d, cur, fs, preRan, runRet,
                    signals >>

\* Line 288 with the description of every job written.
StoreDescription_AllJobs(text) ==
    [ j \in Jobs |-> [ m_d[j] EXCEPT !.description = text ] ]

\* Line 288: m_d->description = ...
StoreDescription(text) == [ m_d EXCEPT ![cur].description = text ]

\* Lines 287-288: the description is derived and stored; an exception
\* leaving getPrettyNameFromScope leaves exec().
Exec_Describe ==
    /\ pc = "describe"
    /\ LET d == getPrettyNameFromScope(scope)
       IN  IF d.thrown # None
           THEN /\ Throw(d.thrown)
                /\ UNCHANGED m_d
           ELSE /\ m_d' = StoreDescription(d.text)
                /\ events' = Append(events, "describe")
                /\ pc' = "progress"
                /\ UNCHANGED << interpreters, scope, result, thrown >>
    /\ UNCHANGED << s_preScript, lastSet, store, lastCall, cur, fs, preRan, runRet, signals >>

\* Line 290
Exec_EmitProgress0 ==
    /\ pc = "progress"
    /\ signals' = Append(signals, 0)
    /\ events' = Append(events, "progress")
    /\ pc' = "lookup"
    /\ UNCHANGED << s_preScript, lastSet, store, lastCall, m_d, cur, fs, interpreters, scope,
                    preRan, runRet, result, thrown >>

\* Lines 291-294 and 337-343: run is looked up and called, or is missing.
Exec_LookupRun ==
    /\ pc = "lookup"
    /\ IF scope.run # "absent"
       THEN /\ pc' = "inRun"
            /\ events' = Append(events, "run")
            /\ UNCHANGED << interpreters, scope, result, thrown >>
       ELSE Return(MissingRunResult(cur))
    /\ UNCHANGED << s_preScript, lastSet, store, lastCall, m_d, cur, fs, preRan, runRet,
                    signals >>

\* What calling the binding of run can do: a value that is not callable
\* raises.
CallOutcomes(b) == IF b = "callable" THEN RunOutcomes ELSE { RetRaise }

\* Lines 295-335: the call of run() ends and its outcome is translated.
Exec_RunReturns ==
    /\ pc = "inRun"
    /\ \E r \in CallOutcomes(scope.run) :
         /\ runRet' = r
         /\ IF r.kind = "raise"
            THEN Return(RunRaisedResult(cur))
            ELSE Return(TranslateReturn(cur, r))
    /\ UNCHANGED << s_preScript, lastSet, store, lastCall, m_d, cur, fs, preRan, signals >>

\* Lines 375-381 with the slot written only while it is empty.
SetInjectedPreScript_OnlyOnce(script) ==
    /\ NoCallRunning
    /\ s_preScript' = IF s_preScript = NULL THEN script ELSE s_preScript
    /\ lastSet' = script
    /\ UNCHANGED << store, lastCall, m_d, pc, cur, fs, interpreters, scope,
                    preRan, runRet, events, signals, result, thrown >>

\* Job::setInjectedPreScript, lines 375-381; called between executions.
SetInjectedPreScript(script) ==
    /\ NoCallRunning
    /\ s_preScript' = script
    /\ lastSet' = script
    /\ UNCHANGED << store, lastCall, m_d, pc, cur, fs, interpreters, scope, preRan,
                    runRet, events, signals, result, thrown >>

\* Guest code (the script being loaded, or run()) calls a method of
\* libcalamares.globalstorage (lines 247-248, 155-162).
Guest_StoreCall ==
    /\ pc \in { "inLoad", "inRun" }
    /\ \E name \in StoreMethods : \E a \in StoreCallArgs(name) :
         LET r == GlobalStorageProxy(StoreBinding(name), store, a[1], a[2])
         IN  /\ store' = r.gs
             /\ lastCall' = [ by |-> "guest", name |-> name, key |-> a[1],
                              arg |-> a[2], ret |-> r.ret ]
    /\ UNCHANGED << s_preScript, lastSet, m_d, pc, cur, fs, interpreters,
                    scope, preRan, runRet, events, signals, result, thrown >>

\* Another holder of the handle JobQueue::instance()->globalStorage()
\* (line 248) calls the storage between executions.
Host_StoreCall ==
    /\ NoCallRunning
    /\ \E name \in StoreMethods : \E a \in StoreCallArgs(name) :
         LET r == GlobalStorage(name, store, a[1], a[2])
         IN  /\ store' = r.gs
             /\ lastCall' = [ by |-> "host", name |-> name, key |-> a[1],
                              arg |-> a[2], ret |-> r.ret ]
    /\ UNCHANGED << s_preScript, lastSet, m_d, pc, cur, fs, interpreters,
                    scope, preRan, runRet, events, signals, result, thrown >>

Next ==
    \/ \E j \in Jobs : Exec_CheckWorkingDir(j)
    \/ Exec_CheckScriptFile
    \/ Exec_AcquireInterpreter
    \/ Exec_InstallApi
    \/ Exec_PreScript
    \/ Exec_EvalFileBegin
    \/ Guest_SetProgress
    \/ Exec_EvalFileEnd
    \/ Exec_Describe
    \/ Exec_EmitProgress0
    \/ Exec_LookupRun
    \/ Exec_RunReturns
    \/ \E script \in PreScripts \cup { NULL } : SetInjectedPreScript(script)

Spec == Init /\ [][Next]_vars

\* The steps of a call of exec() after its first: exec() is ordinary
\* sequential code, so a call that has started takes its next step as
\* long as the guest code it waits for comes back.
ExecStep ==
    \/ Exec_CheckScriptFile
    \/ Exec_AcquireInterpreter
    \/ Exec_InstallApi
    \/ Exec_PreScript
    \/ Exec_EvalFileBegin
    \/ Exec_EvalFileEnd
    \/ Exec_Describe
    \/ Exec_EmitProgress0
    \/ Exec_LookupRun
    \/ Exec_RunReturns

\* One job executed any number of times, with the pre-script slot set
\* between the calls. The progress updates that guest code makes on its
\* way are part of the guest steps, which end with Exec_EvalFileEnd and
\* Exec_RunReturns.
OneJobNext ==
    \/ Exec_CheckWorkingDir(1)
    \/ ExecStep
    \/ \E script \in PreScripts \cup { NULL } : SetInjectedPreScript(script)

\* Every started call of exec() is carried on: no guest step hangs.
FairSpec == Init /\ [][OneJobNext]_vars /\ WF_vars(ExecStep)

\* One job executed any number of times, with the calls on the global
\* storage that its guest code and the other holders of the handle make.
StoreNext ==
    \/ Exec_CheckWorkingDir(1)
    \/ Exec_CheckScriptFile
    \/ Exec_AcquireInterpreter
    \/ Exec_InstallApi
    \/ Exec_PreScript
    \/ Exec_EvalFileBegin
    \/ Exec_EvalFileEnd
    \/ Exec_Describe
    \/ Exec_EmitProgress0
    \/ Exec_LookupRun
    \/ Exec_RunReturns
    \/ Guest_StoreCall
    \/ Host_StoreCall

StoreSpec == Init /\ [][StoreNext]_vars

TypeOK ==
    /\ s_preScript \in PreScripts \cup { NULL }
    /\ pc \in { "idle", "checkScript", "acquire", "install", "preScript",
                "load", "inLoad", "describe", "progress", "lookup", "inRun",
                "done" }
    /\ cur \in Jobs \cup { 0 }
    /\ interpreters \in { 0, 1 }
    /\ thrown \in { None, ErrorAlreadySet }

-----------------------------------------------------------------------------
(* Properties *)

ResultKinds == { "Success", "Error", "InternalError" }

\* The validation of the running or last call found the working directory
\* or the script file unusable.
BadEnvironment ==
    /\ cur # 0
    /\ \/ ~fs.dirExists
       \/ ~fs.dirReadable
       \/ /\ pc # "checkScript"
          /\ (~fs.fileExists \/ ~fs.isFile \/ ~fs.fileReadable)

\* C1: when the working directory does not exist or is not readable, or the
\* script path does not exist, is no regular file or is not readable, the
\* call has ended with an Error result (no exception, not Success, not
\* InternalError) and has not acquired an interpreter, installed the API,
\* run the pre-script, loaded the script or sent a progress value.
C1_ValidationFailureIsError ==
    BadEnvironment =>
        /\ pc = "done"
        /\ result.kind = "Error"
        /\ result.summary \in { MsgBadWorkingDir, MsgBadMainScript }
        /\ thrown = None
        /\ interpreters = 0
        /\ events = << >>
        /\ signals = << >>
        /\ preRan = NULL
        /\ scope = NoScope

\* C1 witness: the script path exists and is readable but is no regular
\* file, and the call has returned the script-file Error.
C1_Witness ==
    /\ pc = "done"
    /\ fs.dirExists /\ fs.dirReadable
    /\ fs.fileExists /\ ~fs.isFile /\ fs.fileReadable
    /\ result = BadScriptFileResult(cur)
    /\ events = << >>

\* C2 (as claimed): once the API is installed, every call ends with a Job
\* Result and no exception; a call that ends with an exception is one
\* whose API installation failed.
C2_NoGuestFailureEscapes ==
    (pc = "done" /\ "install" \in Range(events)) =>
        /\ thrown = None
        /\ result.kind \in ResultKinds

\* C3 (as claimed): once the script has loaded and run is not bound, run is
\* not called and the call ends with the missing-run Error, whatever
\* pretty_name and __doc__ are bound to.
C3_MissingRunIsError ==
    [][ (pc \in { "describe", "progress", "lookup" } /\ scope.run = "absent")
        => /\ pc' # "inRun"
           /\ pc' = "done" => /\ result' = MissingRunResult(cur)
                              /\ thrown' = None ]_vars

TextPair(r) ==
    /\ r.kind = "seq"
    /\ Len(r.items) = 2
    /\ r.items[1].kind = "str"
    /\ r.items[2].kind = "str"

\* C4: when run() returned a sequence of two texts, the call returns Error
\* with element 0 as summary and element 1 as details, unchanged.
C4_ErrorPairUnmodified ==
    (pc = "done" /\ TextPair(runRet)) =>
        /\ result.kind = "Error"
        /\ result.summary = runRet.items[1].text
        /\ result.details = runRet.items[2].text
        /\ thrown = None

\* C4 witness: run() returned ("s", "d") and the call returned Error with
\* summary "s" and details "d".
C4_Witness ==
    /\ pc = "done"
    /\ runRet = RetSeq(<< PyStr(<< "s" >>), PyStr(<< "d" >>) >>)
    /\ result.kind = "Error"
    /\ result.summary = << "s" >>
    /\ result.details = << "d" >>

\* C5 (as claimed): when run() returned a value that is neither None nor a
\* sequence of two texts, the call returns the "invalid results" Error.
C5_MalformedIsInvalidResults ==
    (pc = "done" /\ runRet.kind \in { "int", "seq" } /\ ~TextPair(runRet)) =>
        /\ result = InvalidResultsResult(cur)
        /\ thrown = None

\* C6: when the call of run raised, the call returns InternalError with the
\* code PythonUncaughtException and details that hold the job's pretty name.
C6_RunRaiseIsInternalError ==
    (pc = "done" /\ runRet.kind = "raise") =>
        /\ result.kind = "InternalError"
        /\ result.code = PythonUncaughtException
        /\ Contains(result.details, DirName(m_d[cur].workingPath))
        /\ thrown = None

\* C6 witness: run raised in job 1, whose pretty name is "dummy".
C6_Witness ==
    /\ pc = "done"
    /\ cur = 1
    /\ runRet = RetRaise
    /\ result.kind = "InternalError"
    /\ Contains(result.details, << "dummy" >>)

\* C7: when run was called and returned None, the call returns Success.
C7_NoneIsSuccess ==
    (pc = "done" /\ runRet.kind = "none") =>
        /\ result.kind = "Success"
        /\ result.code = NoError
        /\ thrown = None

\* C7 witness: run returned None in a call that derived a description and
\* relayed a progress value from the guest.
C7_Witness ==
    /\ pc = "done"
    /\ runRet = RetNone
    /\ result.kind = "Success"
    /\ m_d[cur].description # << >>
    /\ "setprogress" \in Range(events)

NameSupplies(sc) ==
    /\ sc.pretty_name.kind = "returns"
    /\ sc.pretty_name.ret.kind = "str"

\* The trimmed text up to its first newline, all of it without one.
FirstLineOf(t) ==
    LET string == Trimmed(t)
    IN  IF IndexOf(string, "\n") >= 0
        THEN Truncate(string, IndexOf(string, "\n"))
        ELSE string

\* C8 (as claimed): when pretty_name supplies no text, the description
\* derived is the first line of the trimmed __doc__ text, the whole trimmed
\* text when it has no newline, and empty when __doc__ is no text.
C8_DocFirstLine ==
    (pc = "progress" /\ ~NameSupplies(scope)) =>
        m_d[cur].description =
            IF scope.doc.kind = "str" THEN FirstLineOf(scope.doc.text)
            ELSE << >>

\* C9 (as claimed): deriving the description always goes on to the progress
\* update; the description is the text pretty_name() returned when it
\* returned text, and otherwise what the __doc__ rule gives.
C9_PrettyNameFirst ==
    [][ pc = "describe"
        => /\ pc' = "progress"
           /\ m_d'[cur].description =
                IF NameSupplies(scope) THEN scope.pretty_name.ret.text
                ELSE getPrettyNameFromScope(
                         [ scope EXCEPT !.pretty_name = PnAbsent ]).text ]_vars

HoldsInterpreter ==
    pc \in { "install", "preScript", "load", "inLoad", "describe", "progress",
             "lookup", "inRun" }

\* C10: a running call past the acquisition holds one interpreter; a call
\* that has ended holds none, whether it returned or threw; the number of
\* live interpreters never goes below zero; a call that acquired an
\* interpreter ends with exactly one release, as its last step.
C10_InterpreterReleased ==
    /\ interpreters >= 0
    /\ HoldsInterpreter => interpreters = 1
    /\ ~HoldsInterpreter => interpreters = 0
    /\ (pc = "done" /\ "acquire" \in Range(events)) =>
           /\ events[Len(events)] = "release"
           /\ Cardinality({ i \in 1..Len(events) : events[i] = "release" }) = 1
    /\ "release" \in Range(events) => "acquire" \in Range(events)

\* C10 witness: a call that acquired an interpreter and ended with an
\* exception holds no interpreter.
C10_Witness ==
    /\ pc = "done"
    /\ thrown = ErrorAlreadySet
    /\ "acquire" \in Range(events)
    /\ "install" \notin Range(events)
    /\ interpreters = 0

Count(ev, e) == Cardinality({ i \in 1..Len(ev) : ev[i] = e })

PastPreScript ==
    pc \in { "load", "inLoad", "describe", "progress", "lookup", "inRun" }

\* C11: a call runs the pre-script at most once; a running call that is
\* past the pre-script stage with the slot set has run it exactly once,
\* and it is the text in the slot; it runs right after the API
\* installation and right before the load of the guest script, in every
\* call, of the first job or a later one; what it binds (run, for the text
\* that binds run) is in the namespace the guest script is loaded into.
C11_PreScriptOncePerExecution ==
    /\ Count(events, "prescript") <= 1
    /\ "prescript" \in Range(events) <=> preRan # NULL
    /\ PastPreScript =>
         /\ preRan = s_preScript
         /\ s_preScript # NULL => Count(events, "prescript") = 1
    /\ \A i \in 1..Len(events) :
         /\ events[i] = "prescript" => (i > 1 /\ events[i - 1] = "install")
         /\ (events[i] = "load" /\ preRan # NULL) =>
                (i > 1 /\ events[i - 1] = "prescript")
    /\ (pc \in { "load", "inLoad" } /\ preRan = "pre_run") =>
           scope.run = "callable"

\* C11 witness: job 2 is loading its script after job 1 ran and derived a
\* description; the pre-script has run in this call and its binding of run
\* is in the namespace.
C11_Witness ==
    /\ cur = 2
    /\ m_d[1].description # << >>
    /\ pc = "inLoad"
    /\ preRan = "pre_run"
    /\ events = << "acquire", "install", "prescript", "load" >>
    /\ scope.run = "callable"

\* C12: the status message of a job is its description when that is not
\* empty and otherwise "Running <leaf> operation." with the leaf name of
\* its working directory, in every state.
C12_StatusMessage ==
    \A j \in Jobs :
        prettyStatusMessage(j) =
            IF m_d[j].description # << >> THEN m_d[j].description
            ELSE << "Running ", IF j = 1 THEN "dummy" ELSE "unpackfs",
                    " operation." >>

\* C12 witness: job 2 has run, derived an empty description, and reports
\* the fallback text.
C12_Witness ==
    /\ pc = "done"
    /\ cur = 2
    /\ "describe" \in Range(events)
    /\ m_d[2].description = << >>
    /\ prettyStatusMessage(2) = << "Running ", "unpackfs", " operation." >>

\* What the last call on the storage says the storage holds.
C13_Visible ==
    /\ lastCall.name = "insert" => store[lastCall.key] = lastCall.arg
    /\ lastCall.name = "remove" => store[lastCall.key] = Absent

C13_StoreStep ==
    LET c == lastCall'
    IN  /\ lastCall' = lastCall => store' = store
        /\ lastCall' # lastCall =>
             /\ c.name = "insert" =>
                    store' = [ store EXCEPT ![c.key] = c.arg ]
             /\ c.name = "remove" =>
                    store' = [ store EXCEPT ![c.key] = Absent ]
             /\ c.name \notin { "insert", "remove" } => store' = store
             /\ ( /\ lastCall.name = "insert"
                  /\ c.name = "value"
                  /\ c.key = lastCall.key ) =>
                    (c.ret.kind = "value" /\ c.ret.v = lastCall.arg)
             /\ ( /\ lastCall.name = "remove"
                  /\ c.name = "contains"
                  /\ c.key = lastCall.key ) =>
                    (c.ret.kind = "bool" /\ c.ret.b = FALSE)

\* C13: value(k) called next after insert(k, v) returns v and contains(k)
\* called next after remove(k) returns false, whoever makes the calls
\* (guest code through the proxy, or another holder of the handle) and
\* whatever steps of the execution lie between them; a call changes the
\* storage itself in the step it is made (insert and remove their key,
\* the other methods nothing), and no other step, the end of the execution
\* included, changes the storage.
C13_StoreRoundTrip == [] C13_Visible /\ [][C13_StoreStep]_vars

\* C13 witness: the execution whose guest code inserted a value has ended
\* and released its interpreter, and the storage holds the value.
C13_Witness ==
    /\ pc = "done"
    /\ "run" \in Range(events)
    /\ "release" \in Range(events)
    /\ lastCall = [ by |-> "guest", name |-> "insert",
                    key |-> "bootLoader", arg |-> "grub", ret |-> StoreNone ]
    /\ store["bootLoader"] = "grub"

\* The pre-script of the running or last call raised.
C14_PreScriptRaised == preRan = "pre_raise"

\* The load of the guest script of the last call raised.
C14_LoadRaised ==
    pc = "done" /\ "load" \in Range(events) /\ "loaded" \notin Range(events)

C14_EndsAtSetup ==
    (C14_PreScriptRaised \/ C14_LoadRaised) =>
        /\ pc = "done"
        /\ result.kind = "InternalError"
        /\ result.code = PythonUncaughtException
        /\ thrown = None
        /\ C14_PreScriptRaised => "load" \notin Range(events)
        /\ Range(events) \cap { "loaded", "describe", "progress", "run" } = { }
        /\ runRet = NotCalled

\* C14: a call whose pre-script or whose guest script load raises ends at
\* that step with an InternalError result of cause uncaught-guest-exception
\* and no exception; after a pre-script raise the script is never loaded;
\* in both cases the step leaves every description as it was, the call
\* derives no description, the adapter emits no progress 0, and run is not
\* called.
C14_SetupRaiseIsInternalError ==
    /\ [] C14_EndsAtSetup
    /\ [][ (pc \in { "preScript", "inLoad" } /\ pc' = "done") =>
             /\ result'.kind = "InternalError"
             /\ m_d' = m_d ]_vars

\* C14 witness: a call of job 2 ended by a raise during the load, after
\* an earlier call had derived a description for job 2, which it keeps.
C14_Witness ==
    /\ C14_LoadRaised
    /\ cur = 2
    /\ result.kind = "InternalError"
    /\ m_d[2].description # << >>

\* C15 (as claimed): a call that has loaded its guest script derives and
\* stores the description, then emits progress 0 exactly once, and only
\* then calls run; every progress update made from inside run comes after
\* the progress 0 of the adapter.
C15_LoadedThenDescribeThenProgress ==
    (pc = "done" /\ "loaded" \in Range(events)) =>
        /\ Count(events, "describe") = 1
        /\ Count(events, "progress") = 1
        /\ \A i, j, k \in 1..Len(events) :
             ( /\ events[i] = "loaded"
               /\ events[j] = "describe"
               /\ events[k] = "progress" ) =>
                 /\ i < j
                 /\ j < k
                 /\ \A m \in 1..Len(events) :
                      /\ events[m] = "run" => k < m
                      /\ (events[m] = "setprogress" /\ i < m) => k < m

\* The API installation of the last call failed.
C16_InstallFailed ==
    pc = "done" /\ "acquire" \in Range(events) /\ "install" \notin Range(events)

C16_NothingRan ==
    C16_InstallFailed =>
        /\ thrown = ErrorAlreadySet
        /\ result = NoResult
        /\ preRan = NULL
        /\ runRet = NotCalled
        /\ events = << "acquire", "release" >>
        /\ signals = << >>

\* C16: a call whose API installation fails ends with the exception and
\* no Job Result; in that call no pre-script and no guest script is run,
\* no progress update is emitted, and the installation step leaves every
\* description as it was; a call that leaves the installation step either
\* has installed the API or has ended with that exception.
C16_InstallFailurePropagates ==
    /\ [] C16_NothingRan
    /\ [][ pc = "install" =>
             /\ m_d' = m_d
             /\ \/ pc' = "preScript" /\ "install" \in Range(events')
                \/ pc' = "done" /\ thrown' = ErrorAlreadySet ]_vars

\* C16 witness: the installation failed in a call of job 1 made with the
\* pre-script slot set, after a call that derived a description.
C16_Witness ==
    /\ C16_InstallFailed
    /\ thrown = ErrorAlreadySet
    /\ cur = 1
    /\ s_preScript = "pre_run"
    /\ m_d[1].description # << >>

C17_OneOutcome ==
    /\ pc = "done" =>
         \/ result.kind \in ResultKinds /\ thrown = None
         \/ result = NoResult /\ thrown = ErrorAlreadySet
    /\ pc # "done" => (result = NoResult /\ thrown = None)
    /\ \A e \in { "acquire", "install", "prescript", "load", "loaded",
                  "describe", "progress", "run", "release" } :
         Count(events, e) <= 1

C18_PastValidation ==
    pc \in { "install", "preScript", "load", "inLoad", "describe", "progress",
             "lookup", "inRun" }

C18_OwnInterpreter ==
    /\ interpreters = IF C18_PastValidation THEN 1 ELSE 0
    /\ ~C18_PastValidation => scope.run = "gone"
    /\ pc \in { "install", "preScript" } =>
         /\ scope.pretty_name.kind = "absent"
         /\ scope.doc.kind = "nontext"
         /\ scope.run = "absent"
    /\ pc \in { "load", "inLoad" } =>
         /\ scope.pretty_name.kind = "absent"
         /\ scope.doc.kind = "nontext"
         /\ scope.run = IF preRan = "pre_run" THEN "callable" ELSE "absent"

C19_Frame ==
    /\ \A j \in Jobs :
         /\ m_d'[j].scriptFile = m_d[j].scriptFile
         /\ m_d'[j].workingPath = m_d[j].workingPath
         /\ m_d'[j].configurationMap = m_d[j].configurationMap
    /\ m_d' # m_d =>
         /\ pc = "describe"
         /\ pc' = "progress"
         /\ "loaded" \in Range(events)
         /\ "describe" \notin Range(events)
         /\ events' = Append(events, "describe")
         /\ \A j \in Jobs \ { cur } : m_d'[j] = m_d[j]

C20_SlotIsLastSet ==
    /\ s_preScript = lastSet
    /\ PastPreScript => preRan = lastSet
    /\ (pc = "done" /\ runRet # NotCalled) =>
           result = IF runRet.kind = "raise" THEN RunRaisedResult(cur)
                    ELSE TranslateReturn(cur, runRet)

C20_PreScriptStep ==
    pc = "preScript" =>
        /\ preRan' = lastSet
        /\ lastSet = NULL =>
             /\ pc' = "load"
             /\ events' = events
             /\ scope' = scope
             /\ result' = result
             /\ thrown' = thrown
        /\ lastSet # NULL => events' # events

\* C20: the slot holds the argument of the last setInjectedPreScript call
\* (NULL before any call); a call of exec() that reaches the pre-script
\* stage runs what the slot holds then, and nothing else; when the slot
\* holds NULL the stage runs nothing and the call goes on to the load with
\* its namespace and event log as the installation left them; what run
\* returned is mapped to the result by the same rule whether a pre-script
\* ran or not.
C20_MostRecentSlotValue ==
    /\ [] C20_SlotIsLastSet
    /\ [][C20_PreScriptStep]_vars

\* C20 witness: a call of job 2, made with the slot holding NULL after an
\* earlier call of job 1, is at the load without having run a pre-script.
C20_Witness ==
    /\ cur = 2
    /\ m_d[1].description # << >>
    /\ pc = "load"
    /\ s_preScript = NULL
    /\ preRan = NULL
    /\ events = << "acquire", "install" >>

====
